---------------------------- MODULE Spec2Model ----------------------------
(***************************************************************************)
(* Model of src/main.py (FollowerTrackCreator): the handler                *)
(* DrawingApp.update_scene, which reads the editor text, walks it line by  *)
(* line as a turtle, and adds items to a QGraphicsScene.                   *)
(*                                                                         *)
(* Numbers are Python floats (IEEE-754 binary64).  They are modelled       *)
(* exactly: a finite float is sign * m * 2^e with m an arbitrary-precision *)
(* natural (a little-endian sequence of 15-bit limbs), and every           *)
(* arithmetic operation rounds its exact result to 53 significant bits,    *)
(* ties to even.  Overflow, underflow and subnormals do not occur for the  *)
(* magnitudes the model draws its inputs from.  Floats are compared as     *)
(* Python's == compares them, so -0.0 and 0.0 are one value.               *)
(***************************************************************************)
EXTENDS Integers, Sequences, FiniteSets, TLC

(***************************************************************************)
(* Arbitrary-precision naturals                                            *)
(***************************************************************************)
LimbBits == 15
Base == 2^LimbBits
MantBits == 53

\* F applied to a value computed once
Bind(v, F(_)) == F(v)
Bind2(u, v, F(_, _)) == F(u, v)

Min(a, b) == IF a < b THEN a ELSE b
Max(a, b) == IF a < b THEN b ELSE a

RECURSIVE BTrim(_)
BTrim(a) ==
    IF a = <<>> THEN a
    ELSE IF a[Len(a)] = 0 THEN BTrim(SubSeq(a, 1, Len(a) - 1)) ELSE a

BLimb(a, i) == IF i <= Len(a) THEN a[i] ELSE 0

RECURSIVE BAddFrom(_, _, _, _)
BAddFrom(a, b, i, c) ==
    IF i > Len(a) /\ i > Len(b)
    THEN IF c = 0 THEN <<>> ELSE <<c>>
    ELSE LET s == BLimb(a, i) + BLimb(b, i) + c
         IN  <<s % Base>> \o BAddFrom(a, b, i + 1, s \div Base)

BAdd(a, b) == BAddFrom(a, b, 1, 0)

\* a - b for a >= b
RECURSIVE BSubFrom(_, _, _, _)
BSubFrom(a, b, i, brw) ==
    IF i > Len(a) THEN <<>>
    ELSE LET d == a[i] - BLimb(b, i) - brw
         IN  IF d < 0 THEN <<d + Base>> \o BSubFrom(a, b, i + 1, 1)
                      ELSE <<d>> \o BSubFrom(a, b, i + 1, 0)

BSub(a, b) == BTrim(BSubFrom(a, b, 1, 0))

\* -1, 0, 1 as a < b, a = b, a > b
RECURSIVE BCmpFrom(_, _, _)
BCmpFrom(a, b, i) ==
    IF i = 0 THEN 0
    ELSE IF a[i] < b[i] THEN -1
    ELSE IF a[i] > b[i] THEN 1
    ELSE BCmpFrom(a, b, i - 1)

BCmp(a, b) ==
    IF Len(a) < Len(b) THEN -1
    ELSE IF Len(a) > Len(b) THEN 1
    ELSE BCmpFrom(a, b, Len(a))

\* a * k for 0 <= k <= Base
RECURSIVE BMulSmallFrom(_, _, _, _)
BMulSmallFrom(a, k, i, c) ==
    IF i > Len(a)
    THEN IF c = 0 THEN <<>> ELSE <<c>>
    ELSE LET p == a[i] * k + c
         IN  <<p % Base>> \o BMulSmallFrom(a, k, i + 1, p \div Base)

BMulSmall(a, k) == BTrim(BMulSmallFrom(a, k, 1, 0))

BShlLimbs(a, q) == IF a = <<>> THEN a ELSE [i \in 1..q |-> 0] \o a

RECURSIVE BMulFrom(_, _, _)
BMulFrom(a, b, i) ==
    IF i > Len(b) THEN <<>>
    ELSE BAdd(BShlLimbs(BMulSmall(a, b[i]), i - 1), BMulFrom(a, b, i + 1))

BMul(a, b) == BTrim(BMulFrom(a, b, 1))

\* a * 2^n
BShl(a, n) == BShlLimbs(BMulSmall(a, 2^(n % LimbBits)), n \div LimbBits)

BDropLimbs(a, q) == IF q >= Len(a) THEN <<>> ELSE SubSeq(a, q + 1, Len(a))

\* floor(d / 2^r) for r < LimbBits
BShrBits(d, r) ==
    [i \in 1..Len(d) |->
        (d[i] \div 2^r) + (BLimb(d, i + 1) % 2^r) * 2^(LimbBits - r)]

\* floor(a / 2^n)
BShr(a, n) == BTrim(BShrBits(BDropLimbs(a, n \div LimbBits), n % LimbBits))

BitLenSmall(v) == CHOOSE n \in 0..LimbBits : v < 2^n /\ (n = 0 \/ v >= 2^(n - 1))

BBitLen(a) ==
    IF a = <<>> THEN 0 ELSE (Len(a) - 1) * LimbBits + BitLenSmall(a[Len(a)])

TrailingZerosSmall(v) ==
    CHOOSE n \in 0..LimbBits : v % 2^n = 0 /\ (v \div 2^n) % 2 = 1

FirstLimb(a) == CHOOSE i \in 1..Len(a) : a[i] # 0 /\ \A h \in 1..(i - 1) : a[h] = 0

\* number of trailing zero bits of a > 0
BTrailingZeros(a) ==
    Bind(FirstLimb(a), LAMBDA j : (j - 1) * LimbBits + TrailingZerosSmall(a[j]))

BIsOdd(a) == a # <<>> /\ a[1] % 2 = 1

\* a natural number of the model's integers as a bignum
BFromNat(n) == BTrim(<<n % Base, (n \div Base) % Base, n \div (Base * Base)>>)

(***************************************************************************)
(* Python floats                                                           *)
(***************************************************************************)
Zero == [k |-> "fin", s |-> 0, m |-> <<>>, e |-> 0]
Inf(sgn) == [k |-> "inf", s |-> sgn, m |-> <<>>, e |-> 0]
NaN == [k |-> "nan", s |-> 0, m |-> <<>>, e |-> 0]

IsZero(a) == a.k = "fin" /\ a.m = <<>>

\* the canonical form of sign * m * 2^e: m odd, or zero
Canon(sgn, m, e) ==
    IF m = <<>> THEN Zero
    ELSE Bind(BTrailingZeros(m), LAMBDA tz :
             [k |-> "fin", s |-> sgn, m |-> BShr(m, tz), e |-> e + tz])

\* round m * 2^e to MantBits significant bits, ties to even
\* m with its d > 0 low bits rounded away
RoundBits(m, d) ==
    Bind(BShr(m, d), LAMBDA q :
        Bind(BCmp(BSub(m, BShl(q, d)), BShl(<<1>>, d - 1)), LAMBDA c :
            IF c > 0 \/ (c = 0 /\ BIsOdd(q)) THEN BAdd(q, <<1>>) ELSE q))

Round(sgn, m, e) ==
    Bind(Max(BBitLen(m) - MantBits, 0), LAMBDA d :
        Canon(sgn, IF d = 0 THEN m ELSE RoundBits(m, d), e + d))

\* float(n) for an int n: exact, the model's integers have fewer than
\* MantBits bits
FromInt(n) == Canon(IF n < 0 THEN 1 ELSE 0, BFromNat(IF n < 0 THEN -n ELSE n), 0)

FNeg(a) ==
    IF a.k = "nan" \/ IsZero(a) THEN a ELSE [a EXCEPT !.s = 1 - a.s]

FAdd(a, b) ==
    IF a.k = "nan" \/ b.k = "nan" THEN NaN
    ELSE IF a.k = "inf" THEN (IF b.k = "inf" /\ b.s # a.s THEN NaN ELSE a)
    ELSE IF b.k = "inf" THEN b
    ELSE IF IsZero(a) THEN b
    ELSE IF IsZero(b) THEN a
    ELSE Bind2(BShl(a.m, a.e - Min(a.e, b.e)), BShl(b.m, b.e - Min(a.e, b.e)),
               LAMBDA ma, mb :
        Bind(BCmp(ma, mb), LAMBDA c :
            Round(IF a.s = b.s \/ c >= 0 THEN a.s ELSE b.s,
                  IF a.s = b.s THEN BAdd(ma, mb)
                  ELSE IF c >= 0 THEN BSub(ma, mb) ELSE BSub(mb, ma),
                  Min(a.e, b.e))))

FSub(a, b) == FAdd(a, FNeg(b))

FMul(a, b) ==
    IF a.k = "nan" \/ b.k = "nan" THEN NaN
    ELSE IF a.k = "inf" \/ b.k = "inf"
         THEN (IF IsZero(a) \/ IsZero(b) THEN NaN ELSE Inf((a.s + b.s) % 2))
    ELSE IF IsZero(a) \/ IsZero(b) THEN Zero
    ELSE Round((a.s + b.s) % 2, BMul(a.m, b.m), a.e + b.e)

\* a / 2
FHalf(a) == IF a.k # "fin" \/ IsZero(a) THEN a ELSE [a EXCEPT !.e = a.e - 1]

\* the integer a finite float of integral value stands for
IntOf(a) ==
    Bind(BShl(a.m, a.e), LAMBDA mag :
        (IF a.s = 1 THEN -1 ELSE 1) * (BLimb(mag, 1) + BLimb(mag, 2) * Base))

(***************************************************************************)
(* math.cos(deg_to_rad(a)) and math.sin(deg_to_rad(a)), a in degrees.      *)
(* deg_to_rad(a) is the float math.pi * a / 180, and the tables hold the   *)
(* float the C library returns for it, for every multiple of 45 degrees    *)
(* from -1440 to 1440 (entry i stands for (i - 1) * 45 - 1440 degrees).    *)
(* An angle outside the tables is outside the model.                       *)
(***************************************************************************)
TrigDomain == {a \in -1440..1440 : a % 45 = 0}

CosValues ==
  <<
    [k |-> "fin", s |-> 0, m |-> <<1>>, e |-> 0],
    [k |-> "fin", s |-> 0, m |-> <<15297, 19710, 633, 181>>, e |-> -53],
    [k |-> "fin", s |-> 0, m |-> <<21363, 16499, 8673, 247>>, e |-> -103],
    [k |-> "fin", s |-> 1, m |-> <<15309, 19710, 633, 181>>, e |-> -53],
    [k |-> "fin", s |-> 1, m |-> <<1>>, e |-> 0],
    [k |-> "fin", s |-> 1, m |-> <<7649, 26239, 16700, 90>>, e |-> -52],
    [k |-> "fin", s |-> 1, m |-> <<15005, 30335, 20993, 70>>, e |-> -101],
    [k |-> "fin", s |-> 0, m |-> <<20211, 13119, 8350, 45>>, e |-> -51],
    [k |-> "fin", s |-> 0, m |-> <<1>>, e |-> 0],
    [k |-> "fin", s |-> 0, m |-> <<7649, 26239, 16700, 90>>, e |-> -52],
    [k |-> "fin", s |-> 0, m |-> <<187, 31172, 30486, 158>>, e |-> -102],
    [k |-> "fin", s |-> 1, m |-> <<7665, 26239, 16700, 90>>, e |-> -52],
    [k |-> "fin", s |-> 1, m |-> <<1>>, e |-> 0],
    [k |-> "fin", s |-> 1, m |-> <<15311, 19710, 633, 181>>, e |-> -53],
    [k |-> "fin", s |-> 0, m |-> <<23793, 15965, 28021, 83>>, e |-> -100],
    [k |-> "fin", s |-> 0, m |-> <<7659, 26239, 16700, 90>>, e |-> -52],
    [k |-> "fin", s |-> 0, m |-> <<1>>, e |-> 0],
    [k |-> "fin", s |-> 0, m |-> <<15311, 19710, 633, 181>>, e |-> -53],
    [k |-> "fin", s |-> 1, m |-> <<26691, 27825, 25282, 61>>, e |-> -102],
    [k |-> "fin", s |-> 1, m |-> <<15305, 19710, 633, 181>>, e |-> -53],
    [k |-> "fin", s |-> 1, m |-> <<1>>, e |-> 0],
    [k |-> "fin", s |-> 1, m |-> <<29629, 19663, 10279, 11>>, e |-> -49],
    [k |-> "fin", s |-> 0, m |-> <<29449, 32690, 16062, 176>>, e |-> -104],
    [k |-> "fin", s |-> 0, m |-> <<20213, 13119, 8350, 45>>, e |-> -51],
    [k |-> "fin", s |-> 0, m |-> <<1>>, e |-> 0],
    [k |-> "fin", s |-> 0, m |-> <<15307, 19710, 633, 181>>, e |-> -53],
    [k |-> "fin", s |-> 1, m |-> <<17669, 19614, 29298, 105>>, e |-> -104],
    [k |-> "fin", s |-> 1, m |-> <<7655, 26239, 16700, 90>>, e |-> -52],
    [k |-> "fin", s |-> 1, m |-> <<1>>, e |-> 0],
    [k |-> "fin", s |-> 1, m |-> <<20211, 13119, 8350, 45>>, e |-> -51],
    [k |-> "fin", s |-> 0, m |-> <<23559, 26152, 6296, 141>>, e |-> -106],
    [k |-> "fin", s |-> 0, m |-> <<15309, 19710, 633, 181>>, e |-> -53],
    [k |-> "fin", s |-> 0, m |-> <<1>>, e |-> 0],
    [k |-> "fin", s |-> 0, m |-> <<15309, 19710, 633, 181>>, e |-> -53],
    [k |-> "fin", s |-> 0, m |-> <<23559, 26152, 6296, 141>>, e |-> -106],
    [k |-> "fin", s |-> 1, m |-> <<20211, 13119, 8350, 45>>, e |-> -51],
    [k |-> "fin", s |-> 1, m |-> <<1>>, e |-> 0],
    [k |-> "fin", s |-> 1, m |-> <<7655, 26239, 16700, 90>>, e |-> -52],
    [k |-> "fin", s |-> 1, m |-> <<17669, 19614, 29298, 105>>, e |-> -104],
    [k |-> "fin", s |-> 0, m |-> <<15307, 19710, 633, 181>>, e |-> -53],
    [k |-> "fin", s |-> 0, m |-> <<1>>, e |-> 0],
    [k |-> "fin", s |-> 0, m |-> <<20213, 13119, 8350, 45>>, e |-> -51],
    [k |-> "fin", s |-> 0, m |-> <<29449, 32690, 16062, 176>>, e |-> -104],
    [k |-> "fin", s |-> 1, m |-> <<29629, 19663, 10279, 11>>, e |-> -49],
    [k |-> "fin", s |-> 1, m |-> <<1>>, e |-> 0],
    [k |-> "fin", s |-> 1, m |-> <<15305, 19710, 633, 181>>, e |-> -53],
    [k |-> "fin", s |-> 1, m |-> <<26691, 27825, 25282, 61>>, e |-> -102],
    [k |-> "fin", s |-> 0, m |-> <<15311, 19710, 633, 181>>, e |-> -53],
    [k |-> "fin", s |-> 0, m |-> <<1>>, e |-> 0],
    [k |-> "fin", s |-> 0, m |-> <<7659, 26239, 16700, 90>>, e |-> -52],
    [k |-> "fin", s |-> 0, m |-> <<23793, 15965, 28021, 83>>, e |-> -100],
    [k |-> "fin", s |-> 1, m |-> <<15311, 19710, 633, 181>>, e |-> -53],
    [k |-> "fin", s |-> 1, m |-> <<1>>, e |-> 0],
    [k |-> "fin", s |-> 1, m |-> <<7665, 26239, 16700, 90>>, e |-> -52],
    [k |-> "fin", s |-> 0, m |-> <<187, 31172, 30486, 158>>, e |-> -102],
    [k |-> "fin", s |-> 0, m |-> <<7649, 26239, 16700, 90>>, e |-> -52],
    [k |-> "fin", s |-> 0, m |-> <<1>>, e |-> 0],
    [k |-> "fin", s |-> 0, m |-> <<20211, 13119, 8350, 45>>, e |-> -51],
    [k |-> "fin", s |-> 1, m |-> <<15005, 30335, 20993, 70>>, e |-> -101],
    [k |-> "fin", s |-> 1, m |-> <<7649, 26239, 16700, 90>>, e |-> -52],
    [k |-> "fin", s |-> 1, m |-> <<1>>, e |-> 0],
    [k |-> "fin", s |-> 1, m |-> <<15309, 19710, 633, 181>>, e |-> -53],
    [k |-> "fin", s |-> 0, m |-> <<21363, 16499, 8673, 247>>, e |-> -103],
    [k |-> "fin", s |-> 0, m |-> <<15297, 19710, 633, 181>>, e |-> -53],
    [k |-> "fin", s |-> 0, m |-> <<1>>, e |-> 0]
  >>

SinValues ==
  <<
    [k |-> "fin", s |-> 0, m |-> <<23559, 26152, 6296, 141>>, e |-> -102],
    [k |-> "fin", s |-> 0, m |-> <<26491, 6559, 20559, 22>>, e |-> -50],
    [k |-> "fin", s |-> 0, m |-> <<1>>, e |-> 0],
    [k |-> "fin", s |-> 0, m |-> <<15309, 19710, 633, 181>>, e |-> -53],
    [k |-> "fin", s |-> 1, m |-> <<26691, 27825, 25282, 61>>, e |-> -101],
    [k |-> "fin", s |-> 1, m |-> <<15319, 19710, 633, 181>>, e |-> -53],
    [k |-> "fin", s |-> 1, m |-> <<1>>, e |-> 0],
    [k |-> "fin", s |-> 1, m |-> <<15309, 19710, 633, 181>>, e |-> -53],
    [k |-> "fin", s |-> 0, m |-> <<17669, 19614, 29298, 105>>, e |-> -102],
    [k |-> "fin", s |-> 0, m |-> <<15319, 19710, 633, 181>>, e |-> -53],
    [k |-> "fin", s |-> 0, m |-> <<1>>, e |-> 0],
    [k |-> "fin", s |-> 0, m |-> <<26487, 6559, 20559, 22>>, e |-> -50],
    [k |-> "fin", s |-> 1, m |-> <<29449, 32690, 16062, 176>>, e |-> -103],
    [k |-> "fin", s |-> 1, m |-> <<15307, 19710, 633, 181>>, e |-> -53],
    [k |-> "fin", s |-> 1, m |-> <<1>>, e |-> 0],
    [k |-> "fin", s |-> 1, m |-> <<20209, 13119, 8350, 45>>, e |-> -51],
    [k |-> "fin", s |-> 0, m |-> <<23559, 26152, 6296, 141>>, e |-> -103],
    [k |-> "fin", s |-> 0, m |-> <<7653, 26239, 16700, 90>>, e |-> -52],
    [k |-> "fin", s |-> 0, m |-> <<1>>, e |-> 0],
    [k |-> "fin", s |-> 0, m |-> <<29629, 19663, 10279, 11>>, e |-> -49],
    [k |-> "fin", s |-> 1, m |-> <<17669, 19614, 29298, 105>>, e |-> -103],
    [k |-> "fin", s |-> 1, m |-> <<15305, 19710, 633, 181>>, e |-> -53],
    [k |-> "fin", s |-> 1, m |-> <<1>>, e |-> 0],
    [k |-> "fin", s |-> 1, m |-> <<15301, 19710, 633, 181>>, e |-> -53],
    [k |-> "fin", s |-> 0, m |-> <<23559, 26152, 6296, 141>>, e |-> -104],
    [k |-> "fin", s |-> 0, m |-> <<7655, 26239, 16700, 90>>, e |-> -52],
    [k |-> "fin", s |-> 0, m |-> <<1>>, e |-> 0],
    [k |-> "fin", s |-> 0, m |-> <<20211, 13119, 8350, 45>>, e |-> -51],
    [k |-> "fin", s |-> 1, m |-> <<23559, 26152, 6296, 141>>, e |-> -105],
    [k |-> "fin", s |-> 1, m |-> <<15309, 19710, 633, 181>>, e |-> -53],
    [k |-> "fin", s |-> 1, m |-> <<1>>, e |-> 0],
    [k |-> "fin", s |-> 1, m |-> <<20211, 13119, 8350, 45>>, e |-> -51],
    Zero,
    [k |-> "fin", s |-> 0, m |-> <<20211, 13119, 8350, 45>>, e |-> -51],
    [k |-> "fin", s |-> 0, m |-> <<1>>, e |-> 0],
    [k |-> "fin", s |-> 0, m |-> <<15309, 19710, 633, 181>>, e |-> -53],
    [k |-> "fin", s |-> 0, m |-> <<23559, 26152, 6296, 141>>, e |-> -105],
    [k |-> "fin", s |-> 1, m |-> <<20211, 13119, 8350, 45>>, e |-> -51],
    [k |-> "fin", s |-> 1, m |-> <<1>>, e |-> 0],
    [k |-> "fin", s |-> 1, m |-> <<7655, 26239, 16700, 90>>, e |-> -52],
    [k |-> "fin", s |-> 1, m |-> <<23559, 26152, 6296, 141>>, e |-> -104],
    [k |-> "fin", s |-> 0, m |-> <<15301, 19710, 633, 181>>, e |-> -53],
    [k |-> "fin", s |-> 0, m |-> <<1>>, e |-> 0],
    [k |-> "fin", s |-> 0, m |-> <<15305, 19710, 633, 181>>, e |-> -53],
    [k |-> "fin", s |-> 0, m |-> <<17669, 19614, 29298, 105>>, e |-> -103],
    [k |-> "fin", s |-> 1, m |-> <<29629, 19663, 10279, 11>>, e |-> -49],
    [k |-> "fin", s |-> 1, m |-> <<1>>, e |-> 0],
    [k |-> "fin", s |-> 1, m |-> <<7653, 26239, 16700, 90>>, e |-> -52],
    [k |-> "fin", s |-> 1, m |-> <<23559, 26152, 6296, 141>>, e |-> -103],
    [k |-> "fin", s |-> 0, m |-> <<20209, 13119, 8350, 45>>, e |-> -51],
    [k |-> "fin", s |-> 0, m |-> <<1>>, e |-> 0],
    [k |-> "fin", s |-> 0, m |-> <<15307, 19710, 633, 181>>, e |-> -53],
    [k |-> "fin", s |-> 0, m |-> <<29449, 32690, 16062, 176>>, e |-> -103],
    [k |-> "fin", s |-> 1, m |-> <<26487, 6559, 20559, 22>>, e |-> -50],
    [k |-> "fin", s |-> 1, m |-> <<1>>, e |-> 0],
    [k |-> "fin", s |-> 1, m |-> <<15319, 19710, 633, 181>>, e |-> -53],
    [k |-> "fin", s |-> 1, m |-> <<17669, 19614, 29298, 105>>, e |-> -102],
    [k |-> "fin", s |-> 0, m |-> <<15309, 19710, 633, 181>>, e |-> -53],
    [k |-> "fin", s |-> 0, m |-> <<1>>, e |-> 0],
    [k |-> "fin", s |-> 0, m |-> <<15319, 19710, 633, 181>>, e |-> -53],
    [k |-> "fin", s |-> 0, m |-> <<26691, 27825, 25282, 61>>, e |-> -101],
    [k |-> "fin", s |-> 1, m |-> <<15309, 19710, 633, 181>>, e |-> -53],
    [k |-> "fin", s |-> 1, m |-> <<1>>, e |-> 0],
    [k |-> "fin", s |-> 1, m |-> <<26491, 6559, 20559, 22>>, e |-> -50],
    [k |-> "fin", s |-> 1, m |-> <<23559, 26152, 6296, 141>>, e |-> -102]
  >>

TrigIndex(d) == (d + 1440) \div 45 + 1

\* math.cos and math.sin raise ValueError("math domain error") on an infinity
MathDomainError(a) == a.k = "inf"

CosTable == [d \in TrigDomain |-> CosValues[TrigIndex(d)]]
SinTable == [d \in TrigDomain |-> SinValues[TrigIndex(d)]]

CosDeg(a) == IF a.k = "nan" THEN NaN ELSE CosTable[IntOf(a)]
SinDeg(a) == IF a.k = "nan" THEN NaN ELSE SinTable[IntOf(a)]

(***************************************************************************)
(* Text.  A str is a sequence of one-character strings.                    *)
(***************************************************************************)
NL == "\n"
Whitespace == {" ", "\t"}
DigitChars == <<"0", "1", "2", "3", "4", "5", "6", "7", "8", "9">>
UpperChars == <<"A", "B", "C", "D", "E", "F", "G", "H", "I", "J", "K", "L", "M",
                "N", "O", "P", "Q", "R", "S", "T", "U", "V", "W", "X", "Y", "Z">>
LowerChars == <<"a", "b", "c", "d", "e", "f", "g", "h", "i", "j", "k", "l", "m",
                "n", "o", "p", "q", "r", "s", "t", "u", "v", "w", "x", "y", "z">>

IsDigit(c) == \E i \in 1..Len(DigitChars) : DigitChars[i] = c
DigitValue(c) == (CHOOSE i \in 1..Len(DigitChars) : DigitChars[i] = c) - 1

\* str.lower()
LowerChar(c) ==
    IF \E i \in 1..Len(UpperChars) : UpperChars[i] = c
    THEN LowerChars[CHOOSE i \in 1..Len(UpperChars) : UpperChars[i] = c]
    ELSE c

lower(s) == [i \in 1..Len(s) |-> LowerChar(s[i])]

\* str.splitlines(): the text cut at its newlines; a last line that is empty
\* is not a line
RECURSIVE SplitLinesFrom(_, _, _)
SplitLinesFrom(s, i, cur) ==
    IF i > Len(s) THEN (IF cur = <<>> THEN <<>> ELSE <<cur>>)
    ELSE IF s[i] = NL THEN <<cur>> \o SplitLinesFrom(s, i + 1, <<>>)
    ELSE SplitLinesFrom(s, i + 1, Append(cur, s[i]))

splitlines(s) == SplitLinesFrom(s, 1, <<>>)

\* str.split(): the maximal runs of non-whitespace characters
RECURSIVE SplitFrom(_, _, _)
SplitFrom(s, i, cur) ==
    IF i > Len(s) THEN (IF cur = <<>> THEN <<>> ELSE <<cur>>)
    ELSE IF s[i] \in Whitespace
         THEN (IF cur = <<>> THEN <<>> ELSE <<cur>>) \o SplitFrom(s, i + 1, <<>>)
    ELSE SplitFrom(s, i + 1, Append(cur, s[i]))

split(s) == SplitFrom(s, 1, <<>>)

\* str(n) for n >= 0
RECURSIVE IntToStr(_)
IntToStr(n) ==
    IF n < 10 THEN <<DigitChars[n + 1]>>
    ELSE Append(IntToStr(n \div 10), DigitChars[(n % 10) + 1])

(***************************************************************************)
(* float(s).  The model reads decimal integer literals with an optional    *)
(* sign and the words inf, infinity and nan; every other string that does  *)
(* not begin with a digit or a point raises ValueError, as in Python.      *)
(* Literals with a fraction or an exponent are outside the model.          *)
(***************************************************************************)
LiteralSign(s) == IF s # <<>> /\ s[1] = "-" THEN 1 ELSE 0
LiteralBody(s) == IF s # <<>> /\ s[1] \in {"+", "-"} THEN Tail(s) ELSE s

AllDigits(s) == s # <<>> /\ \A i \in 1..Len(s) : IsDigit(s[i])

RECURSIVE DecimalValue(_)
DecimalValue(s) ==
    IF s = <<>> THEN 0
    ELSE DecimalValue(SubSeq(s, 1, Len(s) - 1)) * 10 + DigitValue(s[Len(s)])

InfWords == {<<"i", "n", "f">>, <<"i", "n", "f", "i", "n", "i", "t", "y">>}
NanWord == <<"n", "a", "n">>

Supported(s) ==
    LET b == LiteralBody(s)
    IN  b = <<>> \/ AllDigits(b) \/ ~(IsDigit(b[1]) \/ b[1] = ".")

\* [ok |-> TRUE, val |-> the float] or [ok |-> FALSE, exc |-> the ValueError]
ConversionError(s) ==
    [type |-> "ValueError", text |-> "could not convert string to float", arg |-> s]

float(s) ==
    LET t == CHOOSE u \in {s} : Supported(u)
        b == LiteralBody(t)
        v == FromInt(DecimalValue(b))
    IN  IF AllDigits(b)
        THEN [ok |-> TRUE, val |-> IF LiteralSign(t) = 1 THEN FNeg(v) ELSE v]
        ELSE IF lower(b) \in InfWords THEN [ok |-> TRUE, val |-> Inf(LiteralSign(t))]
        ELSE IF lower(b) = NanWord THEN [ok |-> TRUE, val |-> NaN]
        ELSE [ok |-> FALSE, exc |-> ConversionError(t)]


(***************************************************************************)
(* DrawingApp: the drawing methods.  The scene is the sequence of the      *)
(* items added to the QGraphicsScene, in the order they were added.  An    *)
(* item records the arguments of the call that added it; `by` names the    *)
(* method that made the call.                                              *)
(***************************************************************************)
MARK_SIZE == 4
MARK_OFFSET == 4
RECT_MARGIN == 30

NoException == [type |-> "none"]
DomainError == [type |-> "ValueError", text |-> "math domain error"]
Raised(r) == r.exc # NoException

draw_label(scene, px, py, text) ==
    Append(scene, [item |-> "text", by |-> "draw_label", text |-> text,
                   x |-> px, y |-> FSub(py, FromInt(20))])

draw_mark(scene, px, py, th, invert) ==
    Bind(FAdd(th, FromInt(90)), LAMBDA a :
        IF MathDomainError(a)
        THEN [exc |-> DomainError, scene |-> scene]
        ELSE
    Bind2(CosDeg(a), SinDeg(a), LAMBDA c, s :
    Bind2(FMul(FromInt(MARK_OFFSET), c), FMul(FromInt(MARK_OFFSET), s),
          LAMBDA dx0, dy0 :
    Bind2(FAdd(dx0, FMul(FromInt(MARK_SIZE), c)),
          FAdd(dy0, FMul(FromInt(MARK_SIZE), s)), LAMBDA dx1, dy1 :
        [exc |-> NoException,
         scene |-> Append(scene,
             [item |-> "line", by |-> "draw_mark", invert |-> invert,
              x1 |-> FAdd(px, IF invert THEN FNeg(dx0) ELSE dx0),
              y1 |-> FSub(py, IF invert THEN FNeg(dy0) ELSE dy0),
              x2 |-> FAdd(px, IF invert THEN FNeg(dx1) ELSE dx1),
              y2 |-> FSub(py, IF invert THEN FNeg(dy1) ELSE dy1)])]))))

draw_line(scene, px, py, th, d) ==
    IF MathDomainError(th)
    THEN [exc |-> DomainError, scene |-> scene, x |-> px, y |-> py]
    ELSE
    Bind2(FAdd(px, FMul(d, CosDeg(th))), FAdd(py, FMul(FNeg(d), SinDeg(th))),
          LAMBDA x2, y2 :
        [exc |-> NoException,
         scene |-> Append(scene,
             [item |-> "line", by |-> "draw_line",
              x1 |-> px, y1 |-> py, x2 |-> x2, y2 |-> y2]),
         x |-> x2, y |-> y2])

SideL == <<"l">>

\* lines 214 and 168
CenterTurn(side) == IF side = SideL THEN -90 ELSE 90

\* Centre with the quarter turn taken to the other side
CentreOtherSide(px, py, th, side, radius) ==
    Bind(FAdd(th, FromInt(CenterTurn(side))), LAMBDA toC :
        IF MathDomainError(toC) THEN [exc |-> DomainError]
        ELSE [exc |-> NoException,
              cx |-> FAdd(px, FMul(radius, CosDeg(toC))),
              cy |-> FSub(py, FMul(radius, SinDeg(toC)))])

\* lines 218-219 and 169-170: the centre of the arc's circle
Centre(px, py, th, side, radius) ==
    Bind(FSub(th, FromInt(CenterTurn(side))), LAMBDA toC :
        IF MathDomainError(toC) THEN [exc |-> DomainError]
        ELSE [exc |-> NoException,
              cx |-> FAdd(px, FMul(radius, CosDeg(toC))),
              cy |-> FSub(py, FMul(radius, SinDeg(toC)))])

\* OnCircle with the vertical component added, as on a y-up plane
OnCircleUp(c, radius, a) ==
    IF MathDomainError(a) THEN [exc |-> DomainError]
    ELSE [exc |-> NoException,
          x |-> FAdd(c.cx, FMul(radius, CosDeg(a))),
          y |-> FAdd(c.cy, FMul(radius, SinDeg(a)))]

\* lines 229-230 and 175-176: the point of the circle of centre c at the
\* angle a
OnCircle(c, radius, a) ==
    IF MathDomainError(a) THEN [exc |-> DomainError]
    ELSE [exc |-> NoException,
          x |-> FAdd(c.cx, FMul(radius, CosDeg(a))),
          y |-> FSub(c.cy, FMul(radius, SinDeg(a)))]

\* Sweep without the change of sign for a right turn
SweepUnsigned(side, angle) == angle

\* lines 215-216
Sweep(side, angle) == IF side # SideL THEN FNeg(angle) ELSE angle

\* Turned with the sweep subtracted
TurnedBack(th, side, angle) == FSub(th, Sweep(side, angle))

\* Turned without line 228: the heading is left as it was
TurnedNowhere(th, side, angle) == th

\* Turned with the heading brought back into [0, 360)
TurnedWrapped(th, side, angle) ==
    Bind(FAdd(th, Sweep(side, angle)), LAMBDA t :
        IF t.k = "fin" THEN FromInt(IntOf(t) % 360) ELSE t)

\* line 228
Turned(th, side, angle) == FAdd(th, Sweep(side, angle))

draw_arc(scene, px, py, th, side, radius, angle) ==
    Bind(Centre(px, py, th, side, radius), LAMBDA c :
        IF Raised(c)
        THEN [exc |-> c.exc, scene |-> scene, x |-> px, y |-> py, theta |-> th]
        ELSE
    Bind2(Append(scene,
              [item |-> "path", by |-> "draw_arc",
               rect |-> <<FSub(c.cx, radius), FSub(c.cy, radius),
                          FMul(FromInt(2), radius), FMul(FromInt(2), radius)>>,
               start |-> FAdd(th, FromInt(CenterTurn(side))),
               sweep |-> Sweep(side, angle)]),
          Turned(th, side, angle), LAMBDA painted, th2 :
    Bind(OnCircle(c, radius, FAdd(th2, FromInt(CenterTurn(side)))), LAMBDA p :
        IF Raised(p)
        THEN [exc |-> p.exc, scene |-> painted, x |-> px, y |-> py, theta |-> th]
        ELSE [exc |-> NoException, scene |-> painted,
              x |-> p.x, y |-> p.y, theta |-> th2])))

draw_rect(scene, largura, altura) ==
    Append(scene, [item |-> "rect", by |-> "draw_rect",
                   x |-> Zero, y |-> Zero, w |-> largura, h |-> altura])

NoRect == <<>>

\* QRectF.adjusted(dx1, dy1, dx2, dy2) of the rectangle <<x, y, w, h>>
adjusted(r, dx1, dy1, dx2, dy2) ==
    <<FAdd(r[1], FromInt(dx1)), FAdd(r[2], FromInt(dy1)),
      FSub(FAdd(r[3], FromInt(dx2)), FromInt(dx1)),
      FSub(FAdd(r[4], FromInt(dy2)), FromInt(dy1))>>

\* f is the state update_scene works on: its locals, the scene, the scene
\* rectangle, the rectangle the view was last fitted to, and the exception
\* raised, if any
adjust_view_to_rect(f, largura, altura) ==
    [f EXCEPT !.sceneRect = <<Zero, Zero, largura, altura>>,
              !.viewRect = adjusted(<<Zero, Zero, largura, altura>>, -20, -20, 20, 20)]

(***************************************************************************)
(* DrawingApp.update_scene: one iteration of the loop over the lines       *)
(***************************************************************************)
Inicio == <<"i", "n", "i", "c", "i", "o">>
Tamanho == <<"t", "a", "m", "a", "n", "h", "o">>
Reta == <<"r", "e", "t", "a">>
Arco == <<"a", "r", "c", "o">>

Floats(toks) == [i \in 1..Len(toks) |-> float(toks[i])]
AllOk(rs) == \A i \in 1..Len(rs) : rs[i].ok
FirstError(rs) ==
    rs[CHOOSE i \in 1..Len(rs) : ~rs[i].ok /\ \A j \in 1..(i - 1) : rs[j].ok].exc

\* Marks without line 144: first_mark is never cleared
MarksKeepPending(f) ==
    IF f.first_step THEN f
    ELSE Bind(draw_mark(f.scene, f.x, f.y, f.theta, f.first_mark), LAMBDA m :
             IF Raised(m) THEN [f EXCEPT !.exc = m.exc]
             ELSE [f EXCEPT !.scene = m.scene])

\* Marks without the test of first_step
MarksEveryLine(f) ==
    Bind(draw_mark(f.scene, f.x, f.y, f.theta, f.first_mark), LAMBDA m :
        IF Raised(m) THEN [f EXCEPT !.exc = m.exc]
        ELSE [f EXCEPT !.scene = m.scene, !.first_mark = FALSE])

\* lines 139-144: no tick while first_step holds; then the tick is the
\* inverted one when first_mark holds (and first_mark is cleared), the normal
\* one otherwise
Marks(f) ==
    IF f.first_step THEN f
    ELSE Bind(draw_mark(f.scene, f.x, f.y, f.theta, f.first_mark), LAMBDA m :
             IF Raised(m) THEN [f EXCEPT !.exc = m.exc]
             ELSE [f EXCEPT !.scene = m.scene, !.first_mark = FALSE])

\* lines 150-153
SetSize(f, largura, altura) ==
    Bind(adjust_view_to_rect(
             [f EXCEPT !.sceneRect =
                 <<Zero, Zero, FAdd(largura, FromInt(2 * RECT_MARGIN)),
                   FAdd(altura, FromInt(2 * RECT_MARGIN))>>],
             largura, altura), LAMBDA f2 :
        [f2 EXCEPT !.scene = draw_rect(f2.scene, largura, altura)])

\* lines 146-156
Setup(f, cmd, parts) ==
    IF cmd = Inicio /\ Len(parts) = 4
    THEN Bind(Floats(Tail(parts)), LAMBDA r :
             IF AllOk(r)
             THEN [f EXCEPT !.x = r[1].val, !.y = r[2].val, !.theta = r[3].val]
             ELSE [f EXCEPT !.exc = FirstError(r)])
    ELSE IF cmd = Tamanho /\ Len(parts) = 3
    THEN Bind(Floats(Tail(parts)), LAMBDA r :
             IF AllOk(r) THEN SetSize(f, r[1].val, r[2].val)
             ELSE [f EXCEPT !.exc = FirstError(r)])
    ELSE [f EXCEPT !.first_step = FALSE]

\* Straight with the label drawn whatever show_labels is
StraightAlwaysLabel(f, parts, idx, show_labels) ==
    Bind(float(parts[2]), LAMBDA d :
        IF ~d.ok THEN [f EXCEPT !.exc = d.exc]
        ELSE
    Bind(draw_line(f.scene, f.x, f.y, f.theta, d.val), LAMBDA ln :
        IF Raised(ln) THEN [f EXCEPT !.exc = ln.exc]
        ELSE [f EXCEPT
                !.scene = draw_label(ln.scene, FHalf(FAdd(f.x, ln.x)),
                                     FHalf(FAdd(f.y, ln.y)), IntToStr(idx + 1)),
                !.x = ln.x, !.y = ln.y]))

\* Straight without line 163: the pose is not moved to the end of the segment
StraightNoAdvance(f, parts, idx, show_labels) ==
    Bind(float(parts[2]), LAMBDA d :
        IF ~d.ok THEN [f EXCEPT !.exc = d.exc]
        ELSE
    Bind(draw_line(f.scene, f.x, f.y, f.theta, d.val), LAMBDA ln :
        IF Raised(ln) THEN [f EXCEPT !.exc = ln.exc]
        ELSE [f EXCEPT
                !.scene = IF show_labels
                          THEN draw_label(ln.scene, FHalf(FAdd(f.x, ln.x)),
                                          FHalf(FAdd(f.y, ln.y)), IntToStr(idx + 1))
                          ELSE ln.scene]))

\* lines 158-163
Straight(f, parts, idx, show_labels) ==
    Bind(float(parts[2]), LAMBDA d :
        IF ~d.ok THEN [f EXCEPT !.exc = d.exc]
        ELSE
    Bind(draw_line(f.scene, f.x, f.y, f.theta, d.val), LAMBDA ln :
        IF Raised(ln) THEN [f EXCEPT !.exc = ln.exc]
        ELSE [f EXCEPT
                !.scene = IF show_labels
                          THEN draw_label(ln.scene, FHalf(FAdd(f.x, ln.x)),
                                          FHalf(FAdd(f.y, ln.y)), IntToStr(idx + 1))
                          ELSE ln.scene,
                !.x = ln.x, !.y = ln.y]))

\* lines 168-176: the point the label of an arc is put at
MidPoint(f, side, radius, angle) ==
    Bind(Centre(f.x, f.y, f.theta, side, radius), LAMBDA c :
        IF Raised(c) THEN c
        ELSE OnCircle(c, radius,
                 FAdd(FAdd(f.theta, FromInt(CenterTurn(side))),
                      IF side = SideL THEN FHalf(angle) ELSE FHalf(FNeg(angle)))))

\* lines 165-180
Curve(f, parts, idx, show_labels) ==
    Bind(Floats(SubSeq(parts, 3, 4)), LAMBDA r :
        IF ~AllOk(r) THEN [f EXCEPT !.exc = FirstError(r)]
        ELSE
    Bind(MidPoint(f, parts[2], r[1].val, r[2].val), LAMBDA mid :
        IF Raised(mid) THEN [f EXCEPT !.exc = mid.exc]
        ELSE
    Bind(draw_arc(f.scene, f.x, f.y, f.theta, parts[2], r[1].val, r[2].val),
         LAMBDA arc :
        IF Raised(arc) THEN [f EXCEPT !.scene = arc.scene, !.exc = arc.exc]
        ELSE [f EXCEPT
                !.scene = IF show_labels
                          THEN draw_label(arc.scene, mid.x, mid.y, IntToStr(idx + 1))
                          ELSE arc.scene,
                !.x = arc.x, !.y = arc.y, !.theta = arc.theta])))

\* lines 158-180
Motion(f, cmd, parts, idx, show_labels) ==
    IF cmd = Reta /\ Len(parts) = 2 THEN Straight(f, parts, idx, show_labels)
    ELSE IF cmd = Arco /\ Len(parts) = 4 THEN Curve(f, parts, idx, show_labels)
    ELSE f

\* lines 146-180 for a line whose words are parts
Command(f, parts, idx, show_labels) ==
    Bind(Setup(f, lower(parts[1]), parts), LAMBDA f2 :
        IF Raised(f2) THEN f2
        ELSE Motion(f2, lower(parts[1]), parts, idx, show_labels))

\* lines 133-180: the loop body for line number idx (from 0)
iteration(f, idx, line, show_labels) ==
    Bind(split(line), LAMBDA parts :
        IF parts = <<>> THEN f
        ELSE
    Bind(Marks(f), LAMBDA f1 :
        IF Raised(f1) THEN f1
        ELSE Command(f1, parts, idx, show_labels)))


(***************************************************************************)
(* The application                                                         *)
(***************************************************************************)
ReferenceText ==
    <<"i", "n", "i", "c", "i", "o", " ", "2", "5", "0", " ", "1", "0", "0", " ", "0", "\n",
    "t", "a", "m", "a", "n", "h", "o", " ", "6", "0", "0", " ", "4", "0", "0", "\n",
    "r", "e", "t", "a", " ", "1", "0", "0", "\n",
    "r", "e", "t", "a", " ", "1", "0", "0", "\n",
    "a", "r", "c", "o", " ", "r", " ", "1", "0", "0", " ", "1", "8", "0", "\n",
    "r", "e", "t", "a", " ", "3", "0", "0", "\n",
    "a", "r", "c", "o", " ", "r", " ", "1", "0", "0", " ", "1", "8", "0", "\n",
    "r", "e", "t", "a", " ", "1", "0", "0", "\n">>

LineBlank == <<" ">>
LineInicio == <<"i", "n", "i", "c", "i", "o", " ", "2", "5", "0", " ", "1", "0", "0", " ", "0">>
LineTamanho == <<"t", "a", "m", "a", "n", "h", "o", " ", "6", "0", "0", " ", "4", "0", "0">>
LineReta == <<"r", "e", "t", "a", " ", "1", "0", "0">>
LineArcoL == <<"a", "r", "c", "o", " ", "l", " ", "1", "0", "0", " ", "1", "8", "0">>
LineArcoR == <<"a", "r", "c", "o", " ", "r", " ", "1", "0", "0", " ", "9", "0">>
LineUnknown == <<"f", "o", "o", " ", "1", " ", "2", " ", "3">>
LineRetaBad == <<"r", "e", "t", "a", " ", "a", "b", "c">>
LineInicioInf == <<"i", "n", "i", "c", "i", "o", " ", "0", " ", "0", " ", "i", "n", "f">>
LineInicioShort == <<"i", "n", "i", "c", "i", "o", " ", "1", " ", "2">>

MaxLines == 3

LineSet == {LineBlank, LineInicio, LineTamanho, LineReta, LineArcoL, LineArcoR,
            LineUnknown, LineRetaBad, LineInicioInf, LineInicioShort}

VARIABLES
    editor,          \* self.editor: its plain text
    labels_checked,  \* self.btn_labels.isChecked()
    pc,              \* where update_scene is: "init" before its first call,
                     \* "loop", "except", and "done" or "failed" once it returned
    show_labels, lines, idx, x, y, theta, first_step, first_mark,  \* its locals
    e,               \* the exception caught
    scene,           \* self.scene: its items
    sceneRect,       \* self.scene.sceneRect(), NoRect while never set
    viewRect,        \* the rectangle self.view was last fitted to
    msg              \* the QMessageBox shown by the call, NoMessage if none

vars == <<editor, labels_checked, pc, show_labels, lines, idx, x, y, theta,
          first_step, first_mark, e, scene, sceneRect, viewRect, msg>>

NoMessage == [title |-> "none"]

Idle == pc \in {"init", "done", "failed"}

Frame ==
    [x |-> x, y |-> y, theta |-> theta, first_step |-> first_step,
     first_mark |-> first_mark, scene |-> scene, sceneRect |-> sceneRect,
     viewRect |-> viewRect, exc |-> NoException]

SetFrame(f) ==
    /\ x' = f.x
    /\ y' = f.y
    /\ theta' = f.theta
    /\ first_step' = f.first_step
    /\ first_mark' = f.first_mark
    /\ scene' = f.scene
    /\ sceneRect' = f.sceneRect
    /\ viewRect' = f.viewRect
    /\ e' = f.exc

\* DrawingApp.__init__
Init ==
    /\ editor = ReferenceText
    /\ labels_checked = TRUE
    /\ pc = "init"
    /\ show_labels = TRUE
    /\ lines = <<>>
    /\ idx = 0
    /\ x = Zero
    /\ y = Zero
    /\ theta = Zero
    /\ first_step = TRUE
    /\ first_mark = TRUE
    /\ e = NoException
    /\ scene = <<>>
    /\ sceneRect = NoRect
    /\ viewRect = NoRect
    /\ msg = NoMessage

\* update_scene, lines 121-131: called with the editor holding text and the
\* labels button in state checked
Begin(text, checked) ==
    /\ pc' = "loop"
    /\ scene' = <<>>
    /\ show_labels' = checked
    /\ x' = Zero
    /\ y' = Zero
    /\ theta' = Zero
    /\ first_step' = TRUE
    /\ first_mark' = TRUE
    /\ lines' = splitlines(text)
    /\ idx' = 0
    /\ e' = NoException
    /\ msg' = NoMessage
    /\ UNCHANGED <<sceneRect, viewRect>>

\* the user types one more line into the editor and presses Return
\* (CommandEditor.keyPressEvent emits submitted)
TypeLine(l) ==
    /\ Idle
    /\ Len(splitlines(editor)) < MaxLines
    /\ editor' = editor \o l \o <<NL>>
    /\ UNCHANGED labels_checked
    /\ Begin(editor', labels_checked)

\* the user empties the editor and presses Return
ClearText ==
    /\ Idle
    /\ editor' = <<>>
    /\ UNCHANGED labels_checked
    /\ Begin(editor', labels_checked)

\* btn_draw clicked
ClickDraw ==
    /\ Idle
    /\ UNCHANGED <<editor, labels_checked>>
    /\ Begin(editor, labels_checked)

\* btn_labels clicked: the checkable button toggles, then update_scene runs
ClickLabels ==
    /\ Idle
    /\ labels_checked' = ~labels_checked
    /\ UNCHANGED editor
    /\ Begin(editor, labels_checked')

\* update_scene, lines 132-180: one line of the text
LoopBody ==
    /\ pc = "loop"
    /\ idx < Len(lines)
    /\ \E f \in {iteration(Frame, idx, lines[idx + 1], show_labels)} :
           /\ SetFrame(f)
           /\ pc' = IF Raised(f) THEN "except" ELSE "loop"
           /\ idx' = IF Raised(f) THEN idx ELSE idx + 1
    /\ UNCHANGED <<editor, labels_checked, show_labels, lines, msg>>

\* FinalMark with the closing mark drawn as a normal one
FinalMarkNormal ==
    /\ pc = "loop"
    /\ idx = Len(lines)
    /\ \E m \in {draw_mark(scene, x, y, theta, FALSE)} :
           /\ scene' = m.scene
           /\ e' = m.exc
           /\ pc' = IF Raised(m) THEN "except" ELSE "done"
    /\ UNCHANGED <<editor, labels_checked, show_labels, lines, idx, x, y, theta,
                   first_step, first_mark, sceneRect, viewRect, msg>>

\* update_scene, line 182: the closing mark
FinalMark ==
    /\ pc = "loop"
    /\ idx = Len(lines)
    /\ \E m \in {draw_mark(scene, x, y, theta, TRUE)} :
           /\ scene' = m.scene
           /\ e' = m.exc
           /\ pc' = IF Raised(m) THEN "except" ELSE "done"
    /\ UNCHANGED <<editor, labels_checked, show_labels, lines, idx, x, y, theta,
                   first_step, first_mark, sceneRect, viewRect, msg>>

\* update_scene, lines 183-189: str(e) goes into the message box
ExceptHandler ==
    /\ pc = "except"
    /\ msg' = [title |-> "Erro de comando",
               text |-> "Comando inválido ou erro de sintaxe.",
               detail |-> [k \in DOMAIN e \ {"type"} |-> e[k]]]
    /\ pc' = "failed"
    /\ UNCHANGED <<editor, labels_checked, show_labels, lines, idx, x, y, theta,
                   first_step, first_mark, e, scene, sceneRect, viewRect>>

Next ==
    \/ \E l \in LineSet : TypeLine(l)
    \/ ClearText
    \/ ClickDraw
    \/ ClickLabels
    \/ LoopBody
    \/ FinalMark
    \/ ExceptHandler

Spec == Init /\ [][Next]_vars

(***************************************************************************)
(* What a text asks for, read off its lines                                *)
(***************************************************************************)
IsBlank(line) == split(line) = <<>>

\* the condition of line 146 or of line 149
IsSetupLine(line) ==
    /\ ~IsBlank(line)
    /\ \/ lower(split(line)[1]) = Inicio /\ Len(split(line)) = 4
       \/ lower(split(line)[1]) = Tamanho /\ Len(split(line)) = 3

\* the condition of line 149
IsTamanhoLine(line) ==
    /\ ~IsBlank(line)
    /\ lower(split(line)[1]) = Tamanho /\ Len(split(line)) = 3

\* the condition of line 158 or of line 165
IsMotionLine(line) ==
    /\ ~IsBlank(line)
    /\ \/ lower(split(line)[1]) = Reta /\ Len(split(line)) = 2
       \/ lower(split(line)[1]) = Arco /\ Len(split(line)) = 4

\* a line with words that no condition of lines 146-165 accepts
IsNoOpLine(line) == ~IsBlank(line) /\ ~IsSetupLine(line) /\ ~IsMotionLine(line)

\* the positions of the words float() is applied to, lines 147-166
NumericWords(line) ==
    IF IsSetupLine(line) \/ (IsMotionLine(line) /\ Len(split(line)) = 2)
    THEN 2..Len(split(line))
    ELSE IF IsMotionLine(line) THEN 3..4
    ELSE {}

HasBadNumber(line) == \E j \in NumericWords(line) : ~float(split(line)[j]).ok

IsConversionError(exc) ==
    exc.type = "ValueError" /\ exc.text = "could not convert string to float"

Finished == pc \in {"done", "failed"}

\* the number of ticks of the scene sc drawn with invert = inv
Ticks(sc, inv) ==
    Cardinality({i \in 1..Len(sc) : sc[i].by = "draw_mark" /\ sc[i].invert = inv})

\* the items of the scene sc that are not ticks
NonMarks(sc) == SelectSeq(sc, LAMBDA it : it.by # "draw_mark")

\* no setup line comes after a line that is neither blank nor a setup line
SetupThenMotion(ls) ==
    \A i, j \in 1..Len(ls) :
        (i < j /\ IsSetupLine(ls[j])) => (IsBlank(ls[i]) \/ IsSetupLine(ls[i]))

\* the number of lines that are neither blank nor setup lines
MotionCount(ls) ==
    Cardinality({i \in 1..Len(ls) : ~IsBlank(ls[i]) /\ ~IsSetupLine(ls[i])})

TamanhoLines(ls) == {i \in 1..Len(ls) : IsTamanhoLine(ls[i])}

LastOf(S) == CHOOSE i \in S : \A j \in S : j <= i

\* the heading asked for by the first n lines of ls, all of them well formed:
\* the heading of the last inicio line (0 without one) and the signed sweeps
\* of the arco lines after it, added as integers
RECURSIVE HeadingAfter(_, _)
HeadingAfter(ls, n) ==
    IF n = 0 THEN [base |-> Zero, turn |-> 0]
    ELSE IF IsSetupLine(ls[n]) /\ ~IsTamanhoLine(ls[n])
    THEN [base |-> float(split(ls[n])[4]).val, turn |-> 0]
    ELSE IF IsMotionLine(ls[n]) /\ Len(split(ls[n])) = 4
    THEN [base |-> HeadingAfter(ls, n - 1).base,
          turn |-> HeadingAfter(ls, n - 1).turn
                   + (IF split(ls[n])[2] = SideL THEN 1 ELSE -1)
                     * IntOf(float(split(ls[n])[4]).val)]
    ELSE HeadingAfter(ls, n - 1)

\* update_scene run on a window just constructed
Frame0 ==
    [x |-> Zero, y |-> Zero, theta |-> Zero, first_step |-> TRUE,
     first_mark |-> TRUE, scene |-> <<>>, sceneRect |-> NoRect,
     viewRect |-> NoRect, exc |-> NoException]

RECURSIVE Replay(_, _, _, _)
Replay(f, ls, i, labels) ==
    IF i = Len(ls) \/ Raised(f) THEN f
    ELSE Replay(iteration(f, i, ls[i + 1], labels), ls, i + 1, labels)

Closing(f) ==
    IF Raised(f) THEN f
    ELSE Bind(draw_mark(f.scene, f.x, f.y, f.theta, TRUE), LAMBDA m :
             [f EXCEPT !.scene = m.scene, !.exc = m.exc])

FirstRun(text, labels) == Closing(Replay(Frame0, splitlines(text), 0, labels))

(***************************************************************************)
(* Properties                                                              *)
(***************************************************************************)

\* C1: a run that failed on a numeric conversion leaves no primitive of that
\* run in the output
C1_AllOrNothing ==
    (pc = "failed" /\ IsConversionError(e)) => scene = <<>>

\* C2: when a run failed on a numeric conversion, the error reported names
\* the 1-based number of the offending line
C2_ErrorNamesLine ==
    (pc = "failed" /\ IsConversionError(e)) =>
        ("line" \in DOMAIN msg.detail /\ msg.detail.line = idx + 1)

\* C3: a run fails if and only if some line of its text has a recognised
\* keyword, the right number of arguments and a numeric argument that is not
\* a number
C3_FailsIffBadNumber ==
    Finished =>
        (pc = "failed" <=> \E i \in 1..Len(lines) : HasBadNumber(lines[i]))

\* C4 as amended: a successful run of setup lines followed by k other
\* non-blank lines has k ticks when k > 0 (an inverted one before the second
\* of the k lines, a normal one before each later line, the inverted closing
\* one) and 1 tick when k = 0; the reference scenario has 6
C4_TickCount ==
    (pc = "done" /\ SetupThenMotion(lines)) =>
        \A k \in {MotionCount(lines)} :
            /\ Ticks(scene, TRUE) + Ticks(scene, FALSE) = IF k > 0 THEN k ELSE 1
            /\ Ticks(scene, TRUE) = IF k >= 2 THEN 2 ELSE 1
            /\ Ticks(scene, FALSE) = IF k >= 2 THEN k - 2 ELSE 0

C4_Witness ==
    /\ pc = "done"
    /\ lines = splitlines(ReferenceText)
    /\ MotionCount(lines) = 6
    /\ Ticks(scene, TRUE) = 2
    /\ Ticks(scene, FALSE) = 4

\* C4 as stated: such a run has k + 1 ticks when k > 0 and 1 tick when k = 0
C4_TickCountAsStated ==
    (pc = "done" /\ SetupThenMotion(lines)) =>
        \A k \in {MotionCount(lines)} :
            Ticks(scene, TRUE) + Ticks(scene, FALSE) = IF k > 0 THEN k + 1 ELSE 1

\* C5: after a successful run with a well-formed tamanho line, the viewport
\* hint in effect is (w + 2*30, h + 2*30) for the last such line
C5_ViewportHint ==
    (pc = "done" /\ TamanhoLines(lines) # {}) =>
        \A parts \in {split(lines[LastOf(TamanhoLines(lines))])} :
            /\ sceneRect # NoRect
            /\ sceneRect[3] = FAdd(float(parts[2]).val, FromInt(2 * RECT_MARGIN))
            /\ sceneRect[4] = FAdd(float(parts[3]).val, FromInt(2 * RECT_MARGIN))

\* C6 as amended: the reference scenario ends with the heading -360 degrees
C6_ReferenceHeading ==
    (pc = "done" /\ lines = splitlines(ReferenceText)) => theta = FromInt(-360)

C6_Witness ==
    /\ pc = "done"
    /\ editor = ReferenceText
    /\ idx = 8
    /\ theta = FromInt(-360)

\* C6 as stated: the reference scenario ends with the heading 0 degrees
C6_ReferenceHeadingAsStated ==
    (pc = "done" /\ lines = splitlines(ReferenceText)) => theta = Zero

\* C7: the heading is the heading of the last inicio line processed (0
\* without one) plus the sum of the signed sweeps of the arco lines processed
\* since, never reduced modulo 360; no other line changes it
C7_HeadingNotWrapped ==
    \A h \in {HeadingAfter(lines, idx)} :
        theta = IF h.base.k = "fin" THEN FromInt(IntOf(h.base) + h.turn)
                ELSE h.base

C7_Witness ==
    /\ pc = "done"
    /\ HeadingAfter(lines, idx).turn = 540
    /\ theta = FromInt(540)

\* C8: the line "arco l 100 180" processed at the pose (250, 100, 0) gives
\* the pose (250, -100, 180)
C8_GoldenArc ==
    [][(/\ pc = "loop"
        /\ idx < Len(lines)
        /\ split(lines[idx + 1]) = split(LineArcoL)
        /\ x = FromInt(250) /\ y = FromInt(100) /\ theta = Zero)
       => (/\ pc' = "loop"
           /\ x' = FromInt(250) /\ y' = FromInt(-100) /\ theta' = FromInt(180))]_vars

C8_Witness ==
    /\ pc = "loop"
    /\ idx = 2
    /\ lines[1] = LineInicio /\ lines[2] = LineArcoL
    /\ x = FromInt(250) /\ y = FromInt(-100) /\ theta = FromInt(180)

\* C9: a line with an unknown keyword or a wrong number of arguments raises
\* no error, leaves the pose unchanged, adds nothing but ticks to the scene
\* and clears first_step
C9_NoOpLine ==
    [][(pc = "loop" /\ idx < Len(lines) /\ IsNoOpLine(lines[idx + 1]))
       => (/\ pc' = "loop"
           /\ x' = x /\ y' = y /\ theta' = theta
           /\ NonMarks(scene') = NonMarks(scene)
           /\ first_step' = FALSE)]_vars

\* C10: every run starts from the pose (0, 0, 0) with both flags set, and
\* the primitives and the viewport hint it ends with are those of the same
\* text and label toggle run first
C10_RunsIndependent ==
    /\ (pc = "loop" /\ idx = 0) =>
           (x = Zero /\ y = Zero /\ theta = Zero /\ first_step /\ first_mark)
    /\ Finished =>
           \A r \in {FirstRun(editor, show_labels)} :
               scene = r.scene /\ sceneRect = r.sceneRect

\* the items of the scene sc that are not labels
NonLabels(sc) == SelectSeq(sc, LAMBDA it : it.by # "draw_label")

\* C11: a run with labels disabled has no label, and its other primitives,
\* its final pose and its error are those of the run of the same text with
\* labels enabled
C11_LabelsOnlyAddLabels ==
    Finished =>
        \A r \in {FirstRun(editor, ~show_labels)} :
            /\ NonLabels(scene) = NonLabels(r.scene)
            /\ x = r.x /\ y = r.y /\ theta = r.theta
            /\ e = r.exc
            /\ ~show_labels => NonLabels(scene) = scene
            /\ show_labels => NonLabels(r.scene) = r.scene

C11_Witness ==
    /\ pc = "done"
    /\ ~show_labels
    /\ Len(scene) > 1
    /\ NonLabels(FirstRun(editor, TRUE).scene) # FirstRun(editor, TRUE).scene

\* the items a step adds to the scene
Added == SubSeq(scene', Len(scene) + 1, Len(scene'))

\* the line the loop is about to process
AtLine == pc = "loop" /\ idx < Len(lines)

IsRetaLine(line) == IsMotionLine(line) /\ Len(split(line)) = 2
IsArcoLine(line) == IsMotionLine(line) /\ Len(split(line)) = 4

\* the rectangle of the circle of centre c and the given radius, line 221
RectAround(c, radius) ==
    <<FSub(c.cx, radius), FSub(c.cy, radius),
      FMul(FromInt(2), radius), FMul(FromInt(2), radius)>>

\* C12: a motion command starts at the pose the previous one ended at: a
\* blank or no-op line leaves the pose alone, a reta line draws its segment
\* from the current position and moves the position to the segment's end, an
\* arco line draws its arc from the current position and heading and turns
\* the heading by the sweep drawn
C12_PoseContinuity ==
    [][AtLine =>
        /\ (IsBlank(lines[idx + 1]) \/ IsNoOpLine(lines[idx + 1])) =>
               (x' = x /\ y' = y /\ theta' = theta)
        /\ (IsRetaLine(lines[idx + 1]) /\ pc' = "loop") =>
               \E i \in 1..Len(Added) :
                   /\ Added[i].by = "draw_line"
                   /\ Added[i].x1 = x /\ Added[i].y1 = y
                   /\ x' = Added[i].x2 /\ y' = Added[i].y2
                   /\ theta' = theta
        /\ (IsArcoLine(lines[idx + 1]) /\ pc' = "loop") =>
               \E i \in 1..Len(Added) : \A parts \in {split(lines[idx + 1])} :
                   /\ Added[i].by = "draw_arc"
                   /\ Added[i].start = FAdd(theta, FromInt(CenterTurn(parts[2])))
                   /\ Added[i].rect =
                          RectAround(Centre(x, y, theta, parts[2], float(parts[3]).val),
                                     float(parts[3]).val)
                   /\ theta' = FAdd(theta, Added[i].sweep)]_vars

C12_Witness ==
    /\ pc = "loop"
    /\ idx = 3
    /\ IsRetaLine(lines[1])
    /\ IsNoOpLine(lines[2])
    /\ IsRetaLine(lines[3])
    /\ \E i, j \in 1..Len(scene) :
           /\ i < j
           /\ scene[i].by = "draw_line" /\ scene[j].by = "draw_line"
           /\ scene[j].x1 = scene[i].x2 /\ scene[j].y1 = scene[i].y2
           /\ scene[j].x1 # scene[i].x1

\* the float sgn * 2^n
PowerOfTwo(sgn, n) == [k |-> "fin", s |-> sgn, m |-> <<1>>, e |-> n]

\* C13 as amended: the reference scenario ends next to the position
\* (250, 100) set by inicio, not on it: at (250 - 2^-44, 100 + 2^-45)
C13_ReferenceAlmostClosed ==
    (pc = "done" /\ lines = splitlines(ReferenceText)) =>
        /\ FSub(x, FromInt(250)) = PowerOfTwo(1, -44)
        /\ FSub(y, FromInt(100)) = PowerOfTwo(0, -45)

C13_Witness ==
    /\ pc = "done"
    /\ editor = ReferenceText
    /\ x # FromInt(250)
    /\ y # FromInt(100)
    /\ FSub(x, FromInt(250)).e = -44

\* C13 as stated: the reference scenario ends at the position (250, 100)
C13_ReferenceClosedAsStated ==
    (pc = "done" /\ lines = splitlines(ReferenceText)) =>
        (x = FromInt(250) /\ y = FromInt(100))

\* C14: a non-blank line processed with first_step cleared emits exactly one
\* tick, before anything else of the line and at the pose before the line,
\* inverted if first_mark was set (and first_mark is then cleared), normal
\* otherwise; a line processed with first_step set emits no tick
C14_PerLineTick ==
    [][(AtLine /\ ~IsBlank(lines[idx + 1])) =>
        IF first_step
        THEN /\ \A i \in 1..Len(Added) : Added[i].by # "draw_mark"
             /\ first_mark' = first_mark
        ELSE /\ Len(Added) >= 1
             /\ Added[1].by = "draw_mark"
             /\ Added[1].invert = first_mark
             /\ <<Added[1]>> = draw_mark(<<>>, x, y, theta, first_mark).scene
             /\ \A i \in 2..Len(Added) : Added[i].by # "draw_mark"
             /\ first_mark' = FALSE]_vars

\* C15: a run succeeds only by its closing step, which adds exactly one
\* inverted tick at the final pose as the last item of the scene, also for an
\* empty or all-blank text; a closing step that raises adds nothing, and
\* neither does the handling of an exception
C15_ClosingTick ==
    [][/\ (pc = "loop" /\ idx = Len(lines)) =>
              \/ /\ pc' = "done"
                 /\ Len(scene') = Len(scene) + 1
                 /\ Added = draw_mark(<<>>, x, y, theta, TRUE).scene
                 /\ Added[1].by = "draw_mark" /\ Added[1].invert
                 /\ x' = x /\ y' = y /\ theta' = theta
              \/ pc' = "except" /\ scene' = scene
       /\ pc' = "done" => (pc = "loop" /\ idx = Len(lines))
       /\ pc = "except" => (pc' = "failed" /\ scene' = scene)]_vars

C15_Witness ==
    /\ pc = "done"
    /\ editor = <<>>
    /\ Len(scene) = 1
    /\ scene[1].by = "draw_mark" /\ scene[1].invert

IsInicioLine(line) == IsSetupLine(line) /\ ~IsTamanhoLine(line)

InicioLines(ls) == {i \in 1..Len(ls) : IsInicioLine(ls[i])}

\* the pose asked for by the last inicio line of ls, (0, 0, 0) without one
LastStart(ls) ==
    IF InicioLines(ls) = {} THEN <<Zero, Zero, Zero>>
    ELSE [j \in 1..3 |-> float(split(ls[LastOf(InicioLines(ls))])[j + 1]).val]

\* a text of blank lines and setup lines with numbers for arguments
OnlySetup(ls) ==
    \A i \in 1..Len(ls) :
        IsBlank(ls[i]) \/ (IsSetupLine(ls[i]) /\ ~HasBadNumber(ls[i]))

\* C16: a well-formed inicio line sets the pose to its arguments and adds no
\* primitive of its own, a well-formed tamanho line adds one rectangle of its
\* size and leaves the pose, neither clears first_step; a run of such lines
\* and blank lines only ends with exactly one tick, the inverted closing one,
\* at the pose of the last inicio line
C16_SetupLines ==
    /\ [][(AtLine /\ IsSetupLine(lines[idx + 1]) /\ ~HasBadNumber(lines[idx + 1])) =>
            /\ first_step' = first_step
            /\ IsInicioLine(lines[idx + 1]) =>
                   /\ <<x', y', theta'>> = LastStart(<<lines[idx + 1]>>)
                   /\ NonMarks(scene') = NonMarks(scene)
            /\ IsTamanhoLine(lines[idx + 1]) =>
                   /\ x' = x /\ y' = y /\ theta' = theta
                   /\ NonMarks(scene') =
                          Append(NonMarks(scene),
                                 [item |-> "rect", by |-> "draw_rect",
                                  x |-> Zero, y |-> Zero,
                                  w |-> float(split(lines[idx + 1])[2]).val,
                                  h |-> float(split(lines[idx + 1])[3]).val])]_vars
    /\ [](Finished /\ OnlySetup(lines) =>
            /\ pc = "done"
            /\ <<x, y, theta>> = LastStart(lines)
            /\ Ticks(scene, TRUE) = 1 /\ Ticks(scene, FALSE) = 0
            /\ <<scene[Len(scene)]>> = draw_mark(<<>>, x, y, theta, TRUE).scene)

\* the labels among the items of sc
Labels(sc) == SelectSeq(sc, LAMBDA it : it.by = "draw_label")

\* C17: a blank line is skipped (nothing added, pose and flags unchanged) but
\* counts for numbering: with labels enabled a well-formed reta or arco line
\* adds exactly one label, whose text is the 1-based number of the line in
\* the text
C17_BlankLinesAndLabels ==
    [][AtLine =>
        /\ IsBlank(lines[idx + 1]) =>
               /\ pc' = "loop" /\ idx' = idx + 1
               /\ scene' = scene
               /\ x' = x /\ y' = y /\ theta' = theta
               /\ first_step' = first_step /\ first_mark' = first_mark
        /\ (show_labels /\ IsMotionLine(lines[idx + 1])
                /\ ~HasBadNumber(lines[idx + 1])) =>
               /\ Len(Labels(Added)) = 1
               /\ Labels(Added)[1].text = IntToStr(idx + 1)]_vars

\* a step that processes a well-formed "arco l r a" line at the pose (0, 0, 0)
LeftArcFromOrigin ==
    /\ AtLine
    /\ IsArcoLine(lines[idx + 1]) /\ ~HasBadNumber(lines[idx + 1])
    /\ split(lines[idx + 1])[2] = SideL
    /\ x = Zero /\ y = Zero /\ theta = Zero

\* the paths among the items of sc
Paths(sc) == SelectSeq(sc, LAMBDA it : it.by = "draw_arc")

\* C18 as amended: for a left arc of radius r processed at the pose
\* (0, 0, 0) the centre computed is (r * cos(pi/2), -r), that is (0, -r) up
\* to rounding, and the arc is drawn on the circle around that centre
C18_LeftArcCentre ==
    [][LeftArcFromOrigin =>
        \A r \in {float(split(lines[idx + 1])[3]).val} :
            /\ Centre(x, y, theta, SideL, r).cx = FMul(r, CosDeg(FromInt(90)))
            /\ Centre(x, y, theta, SideL, r).cy = FNeg(r)
            /\ Len(Paths(Added)) = 1
            /\ Paths(Added)[1].rect =
                   RectAround([cx |-> FMul(r, CosDeg(FromInt(90))), cy |-> FNeg(r)], r)]_vars

C18_Witness ==
    /\ pc = "loop"
    /\ idx = 1
    /\ lines[1] = LineArcoL
    /\ Len(Paths(scene)) = 1
    /\ Paths(scene)[1].rect =
           <<FromInt(-100), FromInt(-200), FromInt(200), FromInt(200)>>

\* C18 as stated: for a left arc of radius r processed at the pose (0, 0, 0)
\* the centre computed is (r, 0)
C18_LeftArcCentreAsStated ==
    [][LeftArcFromOrigin =>
        \A r \in {float(split(lines[idx + 1])[3]).val} :
            /\ Centre(x, y, theta, SideL, r).cx = r
            /\ Centre(x, y, theta, SideL, r).cy = Zero
            /\ Len(Paths(Added)) = 1
            /\ Paths(Added)[1].rect = RectAround([cx |-> r, cy |-> Zero], r)]_vars

\* the scene without the closing tick of a successful run
BeforeClosing(sc) == IF pc = "done" THEN SubSeq(sc, 1, Len(sc) - 1) ELSE sc

\* C19: within a run first_step and first_mark only go from TRUE to FALSE,
\* first_mark is FALSE only if first_step is; so before the closing tick
\* there is at most one inverted tick, and every normal tick comes after it
C19_FlagInvariant ==
    /\ [][(pc = "loop" \/ pc = "except") =>
            ((first_step' => first_step) /\ (first_mark' => first_mark))]_vars
    /\ [](/\ ~first_mark => ~first_step
          /\ Ticks(BeforeClosing(scene), TRUE) <= 1
          /\ \A i \in 1..Len(scene) :
                 (scene[i].by = "draw_mark" /\ ~scene[i].invert) =>
                     \E j \in 1..(i - 1) :
                         scene[j].by = "draw_mark" /\ scene[j].invert)

C19_Witness ==
    /\ pc = "done"
    /\ ~first_step /\ ~first_mark
    /\ Ticks(BeforeClosing(scene), TRUE) = 1
    /\ Ticks(scene, FALSE) >= 1

\* |a - b| < 2^n
Within(a, b, n) ==
    \A d \in {FSub(a, b)} :
        IsZero(d) \/ (d.k = "fin" /\ BBitLen(d.m) + d.e <= n)

\* a step that processes a well-formed arco line and does not raise
ArcDrawn ==
    /\ AtLine
    /\ IsArcoLine(lines[idx + 1]) /\ ~HasBadNumber(lines[idx + 1])
    /\ pc' = "loop"

\* the point at the angle a of the circle the arco line about to be processed
\* is drawn on
ArcPoint(a) ==
    OnCircle(Centre(x, y, theta, split(lines[idx + 1])[2],
                    float(split(lines[idx + 1])[3]).val),
             float(split(lines[idx + 1])[3]).val, a)

=============================================================================
